---- MODULE Spec2Model ----
(***************************************************************************)
(* A model of the AI Ticket Scheduler: the ticket triager (utils/triage.py),*)
(* the training run that writes its artifact (train.py), the tickets table *)
(* (db.py) and the REST handlers over both (api.py).                        *)
(*                                                                          *)
(* A Python str is a sequence of one-character strings, so that lower(),   *)
(* the `in` substring test and the f-string join are computed, not assumed. *)
(***************************************************************************)
EXTENDS Integers, Sequences, FiniteSets, TLC

VARIABLES
    model_file,   \* models/triage_model.pkl on disk
    data_file,    \* sample_data/synthetic_tickets.csv on disk
    train,        \* the training run (train.py main): its position and locals
    triager,      \* the TicketTriager instance of the serving process
    call,         \* the triage_ticket calls in flight, one per request handler
    tickets,      \* the rows of the tickets table, in id order
    now,          \* datetime.utcnow()
    last,         \* the request last answered, with its response
    arg,          \* the arguments of a direct call of the triager
    ret           \* what that call returned

vars == <<model_file, data_file, train, triager, call, tickets, now, last, arg, ret>>

(***************************************************************************)
(* Bounds of the model.                                                     *)
(***************************************************************************)
\* a description (or a ticket text) given to a direct call of the triager is
\* built of at most this many fragments
MaxDescPieces == 3
\* the request handlers that may be inside triage_ticket at the same time
NumHandlers == 2
\* the clock reads of a run: each request that writes reads the clock once,
\* later than the request before it
MaxTime == 3

(***************************************************************************)
(* Python values.                                                           *)
(***************************************************************************)
\* None, in each kind of slot (a value is compared with values of its own
\* kind only).  In a slot that holds an object (self.model, self.vectorizer):
None == [py_none |-> TRUE]
\* in a slot that holds a label (a category, a priority, a status): a JSON
\* null of a request, a NULL column, a function that returned nothing
NULL == "None"
\* in a slot that holds a text (a title, a description): a sequence that is
\* no text, its one element being no character
NoText == <<NULL>>

\* str.lower() on the ASCII letters; every other character is kept
UpperToLower ==
    "A" :> "a" @@ "B" :> "b" @@ "C" :> "c" @@ "D" :> "d" @@ "E" :> "e" @@
    "F" :> "f" @@ "G" :> "g" @@ "H" :> "h" @@ "I" :> "i" @@ "J" :> "j" @@
    "K" :> "k" @@ "L" :> "l" @@ "M" :> "m" @@ "N" :> "n" @@ "O" :> "o" @@
    "P" :> "p" @@ "Q" :> "q" @@ "R" :> "r" @@ "S" :> "s" @@ "T" :> "t" @@
    "U" :> "u" @@ "V" :> "v" @@ "W" :> "w" @@ "X" :> "x" @@ "Y" :> "y" @@
    "Z" :> "z"

lower_char(c) == IF c \in DOMAIN UpperToLower THEN UpperToLower[c] ELSE c

lower(s) == [i \in 1..Len(s) |-> lower_char(s[i])]

\* Python's `k in s` on two strings: k is a contiguous slice of s
str_in(k, s) ==
    \E i \in 1..(Len(s) - Len(k) + 1) : SubSeq(s, i, i + Len(k) - 1) = k

\* f"{title} {description}"
join_title_description(title, description) == title \o <<" ">> \o description

(***************************************************************************)
(* utils/triage.py: the priority heuristic.                                 *)
(***************************************************************************)
high_priority_keywords == <<
    <<"u", "r", "g", "e", "n", "t">>,
    <<"c", "r", "i", "t", "i", "c", "a", "l">>,
    <<"e", "m", "e", "r", "g", "e", "n", "c", "y">>,
    <<"d", "o", "w", "n">>,
    <<"o", "u", "t", "a", "g", "e">>,
    <<"n", "o", "t", " ", "w", "o", "r", "k", "i", "n", "g">>,
    <<"b", "r", "o", "k", "e", "n">>,
    <<"s", "e", "c", "u", "r", "i", "t", "y">>,
    <<"b", "r", "e", "a", "c", "h">> >>

medium_priority_keywords == <<
    <<"i", "s", "s", "u", "e">>,
    <<"p", "r", "o", "b", "l", "e", "m">>,
    <<"e", "r", "r", "o", "r">>,
    <<"b", "u", "g">>,
    <<"s", "l", "o", "w">>,
    <<"p", "e", "r", "f", "o", "r", "m", "a", "n", "c", "e">>,
    <<"h", "e", "l", "p">> >>

\* any(keyword in ticket_lower for keyword in keywords)
any_keyword_in(keywords, ticket_lower) ==
    \E n \in 1..Len(keywords) : str_in(keywords[n], ticket_lower)

\* the mutants of predict_priority: the medium test first; no lower(); a
\* result that depends on the loaded model; a fall-through returning None
predict_priority_medium_first(self, ticket_text) ==
    LET ticket_lower == lower(ticket_text) IN
    IF any_keyword_in(medium_priority_keywords, ticket_lower) THEN "medium"
    ELSE IF any_keyword_in(high_priority_keywords, ticket_lower) THEN "high"
    ELSE "low"

predict_priority_case_sensitive(self, ticket_text) ==
    IF any_keyword_in(high_priority_keywords, ticket_text) THEN "high"
    ELSE IF any_keyword_in(medium_priority_keywords, ticket_text) THEN "medium"
    ELSE "low"

predict_priority_needs_model(self, ticket_text) ==
    LET ticket_lower == lower(ticket_text) IN
    IF self.model = None THEN "low"
    ELSE IF any_keyword_in(high_priority_keywords, ticket_lower) THEN "high"
    ELSE IF any_keyword_in(medium_priority_keywords, ticket_lower) THEN "medium"
    ELSE "low"

predict_priority_falls_through(self, ticket_text) ==
    LET ticket_lower == lower(ticket_text) IN
    IF any_keyword_in(high_priority_keywords, ticket_lower) THEN "high"
    ELSE IF any_keyword_in(medium_priority_keywords, ticket_lower) THEN "medium"
    ELSE NULL

predict_priority(self, ticket_text) ==
    LET ticket_lower == lower(ticket_text) IN
    IF any_keyword_in(high_priority_keywords, ticket_lower) THEN "high"
    ELSE IF any_keyword_in(medium_priority_keywords, ticket_lower) THEN "medium"
    ELSE "low"

(***************************************************************************)
(* train.py: the training run's functions.  TfidfVectorizer and            *)
(* MultinomialNB are scikit-learn's; they are modelled by what the run      *)
(* uses of them: the analyzer (lower-case, tokens of two or more word       *)
(* characters, stop words dropped), the vocabulary, the per-class term      *)
(* counts with Laplace smoothing, and the arg-max over the sorted classes.  *)
(* Term counts stand for the tf-idf weights.                                *)
(***************************************************************************)
\* the labels of the training data, in the order scikit-learn sorts classes_
category_order == <<"account", "hardware", "network", "security", "software">>

\* stop_words='english', as far as the texts of this model meet it
stop_words == { <<"n", "o", "t">>, <<"i", "s">>, <<"t", "h", "e">>,
                <<"d", "o", "w", "n">> }

is_word_char(c) == c \notin {" ", ".", ":", ","}

RECURSIVE tokenize_from(_, _, _)
tokenize_from(s, i, cur) ==
    LET flush == IF Len(cur) >= 2 THEN <<cur>> ELSE <<>> IN
    IF i > Len(s) THEN flush
    ELSE IF is_word_char(s[i]) THEN tokenize_from(s, i + 1, Append(cur, s[i]))
    ELSE flush \o tokenize_from(s, i + 1, <<>>)

\* the vectorizer's analyzer: the sequence of terms of a document
analyze(text) ==
    SelectSeq(tokenize_from(lower(text), 1, <<>>), LAMBDA t : t \notin stop_words)

term_count(terms, t) == Cardinality({i \in 1..Len(terms) : terms[i] = t})

\* vectorizer.transform([text]): the document's weight on each vocabulary term
transform(vectorizer, text) ==
    LET terms == analyze(text) IN
    [t \in vectorizer.vocabulary |-> term_count(terms, t)]

\* df['text'] = df['title'] + ' ' + df['description']; X = text, y = category
prepare_features(df) ==
    [i \in 1..Len(df) |->
        [text |-> df[i].title \o <<" ">> \o df[i].description,
         category |-> df[i].category,
         split |-> df[i].split]]

\* train_test_split(test_size=0.2, random_state=42, stratify=y): the seeded
\* shuffle is a fixed assignment, carried by each row of the data
train_split(Xy) == SelectSeq(Xy, LAMBDA r : r.split = "train")

RECURSIVE sum_over(_, _)
sum_over(f, S) ==
    IF S = {} THEN 0
    ELSE LET x == CHOOSE y \in S : TRUE IN f[x] + sum_over(f, S \ {x})

\* train_model: fit the vectorizer, then the classifier on its output
train_model(Xy_train) ==
    LET rows == 1..Len(Xy_train)
        vocabulary == UNION {{analyze(Xy_train[i].text)[j] :
                                j \in 1..Len(analyze(Xy_train[i].text))} : i \in rows}
        vectorizer == [vocabulary |-> vocabulary]
        labels == {Xy_train[i].category : i \in rows}
        classes == SelectSeq(category_order, LAMBDA c : c \in labels)
        of_class(c) == {i \in rows : Xy_train[i].category = c}
        model ==
            [classes |-> classes,
             class_count |-> [c \in labels |-> Cardinality(of_class(c))],
             feature_count |->
                [c \in labels |-> [t \in vocabulary |->
                    sum_over([i \in rows |-> transform(vectorizer, Xy_train[i].text)[t]],
                             of_class(c))]]]
    IN [model |-> model, vectorizer |-> vectorizer]

RECURSIVE power(_, _)
power(b, n) == IF n = 0 THEN 1 ELSE b * power(b, n - 1)

RECURSIVE likelihood_num(_, _, _)
likelihood_num(counts, vec, S) ==
    IF S = {} THEN 1
    ELSE LET t == CHOOSE y \in S : TRUE IN
         power(counts[t] + 1, vec[t]) * likelihood_num(counts, vec, S \ {t})

\* model.predict(text_vector)[0]: the class of the greatest joint likelihood
\* prior * prod_t ((count_t + 1) / (total + V)) ^ weight_t, the first of the
\* sorted classes winning a tie (numpy's argmax).  The fractions are compared
\* by cross-multiplication.
model_predict(model, text_vector) ==
    LET V == DOMAIN text_vector
        n == sum_over(text_vector, V)
        labels == DOMAIN model.class_count
        num == [c \in labels |->
                   model.class_count[c]
                       * likelihood_num(model.feature_count[c], text_vector, V)]
        den == [c \in labels |->
                   power(sum_over(model.feature_count[c], V) + Cardinality(V), n)]
        less(c, d) == num[c] * den[d] < num[d] * den[c]
        best == CHOOSE k \in 1..Len(model.classes) :
                    /\ \A j \in 1..(k - 1) : less(model.classes[j], model.classes[k])
                    /\ \A j \in (k + 1)..Len(model.classes) :
                          ~less(model.classes[k], model.classes[j])
    IN model.classes[best]

\* pickle.dump({'model': model, 'vectorizer': vectorizer}, f), once complete
pickled(artifact) == [exists |-> TRUE, complete |-> TRUE, data |-> artifact]
\* the file between open(output_path, 'wb') and the end of pickle.dump
Truncated == [exists |-> TRUE, complete |-> FALSE]
NoFile == [exists |-> FALSE]

(***************************************************************************)
(* utils/triage.py: the triager.                                            *)
(***************************************************************************)
NotStarted == [state |-> "not_started"]
\* pickle.load on an incomplete file raises out of __init__
Failed == [state |-> "failed"]

\* the mutant of load_model: a missing file is an error
load_model_requires_file(self, file) ==
    IF file.exists /\ file.complete
    THEN [self EXCEPT !.model = file.data.model, !.vectorizer = file.data.vectorizer]
    ELSE Failed

load_model(self, file) ==
    IF file.exists
    THEN IF file.complete
         THEN [self EXCEPT !.model = file.data.model,
                           !.vectorizer = file.data.vectorizer]
         ELSE Failed
    ELSE self

TicketTriager_init(file) ==
    load_model([state |-> "ready", model |-> None, vectorizer |-> None], file)

\* the mutants of predict_category: no guard on an unset model (the
\* attribute access on None raises); only the model is tested
predict_category_unguarded(self, ticket_text) ==
    IF self.model = None \/ self.vectorizer = None
    THEN [raised |-> TRUE, value |-> NULL]
    ELSE [raised |-> FALSE,
          value |-> model_predict(self.model, transform(self.vectorizer, ticket_text))]

predict_category(self, ticket_text) ==
    IF self.model = None \/ self.vectorizer = None
    THEN [raised |-> FALSE, value |-> "uncategorized"]
    ELSE [raised |-> FALSE,
          value |-> model_predict(self.model, transform(self.vectorizer, ticket_text))]

\* the mutants of triage_ticket: the two texts joined without the space;
\* the priority taken from the title alone
triage_ticket_no_space(self, title, description) ==
    LET ticket_text == title \o description
        category == predict_category(self, ticket_text)
        priority == predict_priority(self, ticket_text)
    IN [raised |-> category.raised,
        value |-> [category |-> category.value, priority |-> priority]]

\* the mutant of triage_ticket: the priority is taken from the title alone
triage_ticket_title_priority(self, title, description) ==
    LET ticket_text == join_title_description(title, description)
        category == predict_category(self, ticket_text)
        priority == predict_priority(self, title)
    IN [raised |-> category.raised,
        value |-> [category |-> category.value, priority |-> priority]]

triage_ticket(self, title, description) ==
    LET ticket_text == join_title_description(title, description)
        category == predict_category(self, ticket_text)
        priority == predict_priority(self, ticket_text)
    IN [raised |-> category.raised,
        value |-> [category |-> category.value, priority |-> priority]]

(***************************************************************************)
(* The inputs of the model.                                                 *)
(***************************************************************************)
\* the fragments texts are built of: keywords in mixed case, the two halves
\* of 'not working' (neither is a keyword alone) and the space that joins them
Pieces == { <<"D", "o", "w", "n">>, <<"n", "o", "t">>,
            <<"w", "o", "r", "k", "i", "n", "g">>, <<" ">>,
            <<"B", "u", "g">> }

RECURSIVE texts_of(_)
texts_of(n) ==
    IF n = 0 THEN {<<>>}
    ELSE LET shorter == texts_of(n - 1) IN
         shorter \cup {t \o p : t \in shorter, p \in Pieces}

\* streamlit_app.py show_triage_demo: the examples the Triage Demo page
\* lists, each with the category and the priority it shows as expected
examples == <<
    [title |->
          <<"N", "e", "t", "w", "o", "r", "k", " ", "d", "o", "w", "n">>,
     description |->
          <<"T", "h", "e", " ", "e", "n", "t", "i", "r", "e", " ", "o", "f",
              "f", "i", "c", "e", " ", "n", "e", "t", "w", "o", "r", "k", " ",
              "i", "s", " ", "d", "o", "w", "n", " ", "a", "n", "d", " ", "n",
              "o", "b", "o", "d", "y", " ", "c", "a", "n", " ", "w", "o", "r",
              "k">>,
     category |-> "network", priority |-> "high"],
    [title |->
          <<"F", "o", "r", "g", "o", "t", " ", "p", "a", "s", "s", "w", "o",
              "r", "d">>,
     description |->
          <<"I", " ", "f", "o", "r", "g", "o", "t", " ", "m", "y", " ", "p",
              "a", "s", "s", "w", "o", "r", "d", " ", "a", "n", "d", " ", "n",
              "e", "e", "d", " ", "t", "o", " ", "r", "e", "s", "e", "t", " ",
              "i", "t">>,
     category |-> "account", priority |-> "medium"],
    [title |->
          <<"P", "r", "i", "n", "t", "e", "r", " ", "n", "o", "t", " ", "w",
              "o", "r", "k", "i", "n", "g">>,
     description |->
          <<"T", "h", "e", " ", "p", "r", "i", "n", "t", "e", "r", " ", "o",
              "n", " ", "t", "h", "e", " ", "3", "r", "d", " ", "f", "l", "o",
              "o", "r", " ", "i", "s", " ", "n", "o", "t", " ", "r", "e", "s",
              "p", "o", "n", "d", "i", "n", "g">>,
     category |-> "hardware", priority |-> "low"] >>

\* the texts of the examples, as the page's form passes them to triage_ticket
ExampleArgs ==
    {[title |-> examples[i].title, description |-> examples[i].description] :
        i \in DOMAIN examples}

\* a title is empty or one fragment
Titles == {<<>>} \cup Pieces
Descriptions == texts_of(MaxDescPieces)

\* two contents of the training data, as generate_synthetic.py's random
\* choices may write them: rows of title, description, category
DataA == <<
    [title |-> <<"p", "c">>, description |-> <<"n", "o", "t", " ", "w", "o", "r", "k", "i", "n", "g">>,
     category |-> "hardware", split |-> "train"],
    [title |-> <<"v", "p", "n">>, description |-> <<"b", "u", "g">>,
     category |-> "network", split |-> "train"],
    [title |-> <<"p", "c">>, description |-> <<"b", "u", "g">>,
     category |-> "hardware", split |-> "test"] >>

DataB == <<
    [title |-> <<"B", "u", "g">>, description |-> <<"p", "c">>,
     category |-> "software", split |-> "train"],
    [title |-> <<"H", "e", "l", "p">>, description |-> <<"w", "o", "r", "k", "i", "n", "g">>,
     category |-> "account", split |-> "train"],
    [title |-> <<"p", "c">>, description |-> <<"d", "o", "w", "n">>,
     category |-> "software", split |-> "test"] >>

Datasets == {DataA, DataB}

\* what a whole training run makes of a data file
fit(df) == train_model(train_split(prepare_features(df)))

\* the states the model file can be read in without failure
ModelFiles == {NoFile} \cup {pickled(fit(d)) : d \in Datasets}

Priorities == {"low", "medium", "high"}

(***************************************************************************)
(* Direct calls of the triager: one triager, constructed over a model file *)
(* that is absent or complete, and one call of each of its methods on the   *)
(* drawn arguments.                                                         *)
(***************************************************************************)
Idle == [pc |-> "idle", result |-> "none"]
NoRequest == [op |-> "none"]

UnitInit ==
    /\ model_file \in {NoFile, pickled(fit(DataA))}
    /\ triager = TicketTriager_init(model_file)
    /\ arg \in [title : Titles, description : Descriptions] \cup ExampleArgs
    /\ ret = [op |-> "none"]
    /\ data_file = NoFile
    /\ train = Idle
    /\ call = <<>>
    /\ tickets = <<>>
    /\ now = 0
    /\ last = NoRequest

CallPredictPriority ==
    /\ triager.state = "ready"
    /\ ret' = [op |-> "predict_priority", raised |-> FALSE,
               value |-> predict_priority(triager, arg.description)]
    /\ UNCHANGED <<model_file, data_file, train, triager, call, tickets, now, last, arg>>

CallPredictCategory ==
    /\ triager.state = "ready"
    /\ ret' = [op |-> "predict_category"] @@ predict_category(triager, arg.description)
    /\ UNCHANGED <<model_file, data_file, train, triager, call, tickets, now, last, arg>>

CallTriageTicket ==
    /\ triager.state = "ready"
    /\ ret' = [op |-> "triage_ticket"] @@ triage_ticket(triager, arg.title, arg.description)
    /\ UNCHANGED <<model_file, data_file, train, triager, call, tickets, now, last, arg>>

UnitNext == CallPredictPriority \/ CallPredictCategory \/ CallTriageTicket

SpecUnit == UnitInit /\ [][UnitNext]_vars

(***************************************************************************)
(* The serving process and the training run side by side: the process is   *)
(* started (api.py builds its module-level triager), its request handlers   *)
(* run triage_ticket line by line, each step reading the shared triager,    *)
(* while data is generated and training runs write the model file.          *)
(***************************************************************************)
Handlers == 1..NumHandlers

\* the titles and descriptions the handlers are called with
CallTitles == { <<"B", "u", "g">> }
CallDescriptions == { <<"w", "o", "r", "k", "i", "n", "g">>, <<"D", "o", "w", "n">> }

CallsInit ==
    /\ model_file = NoFile
    /\ data_file = NoFile
    /\ train = Idle
    /\ triager = NotStarted
    /\ call = [h \in Handlers |-> [pc |-> "idle"]]
    /\ tickets = <<>>
    /\ now = 0
    /\ last = NoRequest
    /\ arg = [title |-> <<>>, description |-> <<>>]
    /\ ret = [op |-> "none"]

\* data/generate_synthetic.py writes the training data
GenerateData(d) ==
    /\ data_file' = [exists |-> TRUE, rows |-> d]
    /\ UNCHANGED <<model_file, train, triager, call, tickets, now, last, arg, ret>>

\* the training data file is removed (sample_data is cleaned)
RemoveData ==
    /\ data_file.exists
    /\ data_file' = NoFile
    /\ UNCHANGED <<model_file, train, triager, call, tickets, now, last, arg, ret>>

\* the mutant of TrainLoadMissing: the output file is opened for writing
\* before the missing input is noticed
TrainLoadMissingOpensOutput ==
    /\ train.pc = "idle"
    /\ ~data_file.exists
    /\ model_file' = Truncated
    /\ train' = [pc |-> "idle", result |-> "no_data"]
    /\ UNCHANGED <<data_file, triager, call, tickets, now, last, arg, ret>>

\* train.py main, lines 126-128: load_training_data finds no file, reports
\* it and returns None; main returns
TrainLoadMissing ==
    /\ train.pc = "idle"
    /\ ~data_file.exists
    /\ train' = [pc |-> "idle", result |-> "no_data"]
    /\ UNCHANGED <<model_file, data_file, triager, call, tickets, now, last, arg, ret>>

\* lines 126-128 with the file present: df is read
TrainLoad ==
    /\ train.pc = "idle"
    /\ data_file.exists
    /\ train' = [pc |-> "fit", df |-> data_file.rows]
    /\ UNCHANGED <<model_file, data_file, triager, call, tickets, now, last, arg, ret>>

\* lines 131-146: prepare_features, train_test_split, train_model, evaluate
TrainFit ==
    /\ train.pc = "fit"
    /\ train' = [pc |-> "save", artifact |-> fit(train.df)]
    /\ UNCHANGED <<model_file, data_file, triager, call, tickets, now, last, arg, ret>>

\* save_model, lines 107-110: open(output_path, 'wb') empties the file
TrainSaveOpen ==
    /\ train.pc = "save"
    /\ model_file' = Truncated
    /\ train' = [train EXCEPT !.pc = "dump"]
    /\ UNCHANGED <<data_file, triager, call, tickets, now, last, arg, ret>>

\* save_model, lines 111-116: pickle.dump completes and the file is closed
TrainSaveDump ==
    /\ train.pc = "dump"
    /\ model_file' = pickled(train.artifact)
    /\ train' = [pc |-> "idle", result |-> "saved"]
    /\ UNCHANGED <<data_file, triager, call, tickets, now, last, arg, ret>>

\* api.py line 16: triager = TicketTriager()
StartProcess ==
    /\ triager = NotStarted
    /\ triager' = TicketTriager_init(model_file)
    /\ UNCHANGED <<model_file, data_file, train, call, tickets, now, last, arg, ret>>

\* triage_ticket line 91: a handler enters with its arguments
BeginCall(h, title, description) ==
    /\ triager.state = "ready"
    /\ call[h].pc \in {"idle", "done"}
    /\ call' = [call EXCEPT ![h] =
                   [pc |-> "category",
                    ticket_text |-> join_title_description(title, description)]]
    /\ UNCHANGED <<model_file, data_file, train, triager, tickets, now, last, arg, ret>>

\* the mutant of CheckLoaded: a triager without a model loads it when asked
CheckLoadedLazily(h) ==
    /\ call[h].pc = "category"
    /\ triager' = IF triager.model = None /\ model_file.exists /\ model_file.complete
                  THEN load_model(triager, model_file)
                  ELSE triager
    /\ call' = [call EXCEPT ![h] =
                   IF triager'.model = None \/ triager'.vectorizer = None
                   THEN [pc |-> "priority", ticket_text |-> @.ticket_text,
                         category |-> "uncategorized"]
                   ELSE [pc |-> "transform", ticket_text |-> @.ticket_text]]
    /\ UNCHANGED <<model_file, data_file, train, tickets, now, last, arg, ret>>

\* predict_category lines 41-42: the test of self.model and self.vectorizer
CheckLoaded(h) ==
    /\ call[h].pc = "category"
    /\ call' = [call EXCEPT ![h] =
                   IF triager.model = None \/ triager.vectorizer = None
                   THEN [pc |-> "priority", ticket_text |-> @.ticket_text,
                         category |-> "uncategorized"]
                   ELSE [pc |-> "transform", ticket_text |-> @.ticket_text]]
    /\ UNCHANGED <<model_file, data_file, train, triager, tickets, now, last, arg, ret>>

\* predict_category line 45
Transform(h) ==
    /\ call[h].pc = "transform"
    /\ call' = [call EXCEPT ![h] =
                   [pc |-> "predict", ticket_text |-> @.ticket_text,
                    text_vector |-> transform(triager.vectorizer, @.ticket_text)]]
    /\ UNCHANGED <<model_file, data_file, train, triager, tickets, now, last, arg, ret>>

\* the mutant of Predict: the model is read from the file at each call
PredictFromFile(h) ==
    /\ call[h].pc = "predict"
    /\ call' = [call EXCEPT ![h] =
                   [pc |-> "priority", ticket_text |-> @.ticket_text,
                    category |->
                        IF model_file.exists /\ model_file.complete
                        THEN model_predict(model_file.data.model,
                                 transform(model_file.data.vectorizer, @.ticket_text))
                        ELSE "uncategorized"]]
    /\ UNCHANGED <<model_file, data_file, train, triager, tickets, now, last, arg, ret>>

\* predict_category lines 48-49
Predict(h) ==
    /\ call[h].pc = "predict"
    /\ call' = [call EXCEPT ![h] =
                   [pc |-> "priority", ticket_text |-> @.ticket_text,
                    category |-> model_predict(triager.model, @.text_vector)]]
    /\ UNCHANGED <<model_file, data_file, train, triager, tickets, now, last, arg, ret>>

\* triage_ticket lines 94-99
PriorityAndReturn(h) ==
    /\ call[h].pc = "priority"
    /\ call' = [call EXCEPT ![h] =
                   [pc |-> "done", ticket_text |-> @.ticket_text, category |-> @.category,
                    priority |-> predict_priority(triager, @.ticket_text)]]
    /\ UNCHANGED <<model_file, data_file, train, triager, tickets, now, last, arg, ret>>

CallsNext ==
    \/ \E d \in Datasets : GenerateData(d)
    \/ RemoveData
    \/ TrainLoadMissing
    \/ TrainLoad
    \/ TrainFit
    \/ TrainSaveOpen
    \/ TrainSaveDump
    \/ StartProcess
    \/ \E h \in Handlers, title \in CallTitles, description \in CallDescriptions :
          BeginCall(h, title, description)
    \/ \E h \in Handlers : CheckLoaded(h)
    \/ \E h \in Handlers : Transform(h)
    \/ \E h \in Handlers : Predict(h)
    \/ \E h \in Handlers : PriorityAndReturn(h)

SpecCalls == CallsInit /\ [][CallsNext]_vars

(***************************************************************************)
(* The REST API over the tickets table: the process is up, its triager      *)
(* constructed over a model file that is absent or complete, and requests   *)
(* are answered one at a time.                                              *)
(***************************************************************************)
\* the request bodies POST /tickets is sent: TicketCreate with category and
\* priority each omitted (null) or given, status left at its default, null,
\* or a string of the caller's
ReqTitles == { <<"n", "o", "t">> }
ReqDescriptions == { <<"w", "o", "r", "k", "i", "n", "g">>, <<"v", "p", "n">> }
CreateBodies ==
    { [title |-> <<"n", "o", "t">>, description |-> <<"w", "o", "r", "k", "i", "n", "g">>,
       category |-> NULL, priority |-> NULL, status |-> "open"],
      [title |-> <<"n", "o", "t">>, description |-> <<"v", "p", "n">>,
       category |-> NULL, priority |-> NULL, status |-> "open"],
      [title |-> <<"n", "o", "t">>, description |-> <<"w", "o", "r", "k", "i", "n", "g">>,
       category |-> "billing", priority |-> NULL, status |-> "open"],
      [title |-> <<"n", "o", "t">>, description |-> <<"v", "p", "n">>,
       category |-> NULL, priority |-> "low", status |-> NULL],
      [title |-> <<"n", "o", "t">>, description |-> <<"w", "o", "r", "k", "i", "n", "g">>,
       category |-> "billing", priority |-> "low", status |-> "closed"] }

\* the request bodies PUT /tickets/{id} is sent: TicketUpdate, every field
\* null unless given
NoFields ==
    [title |-> NoText, description |-> NoText, category |-> NULL,
     priority |-> NULL, status |-> NULL]
UpdateBodies ==
    { NoFields,
      [NoFields EXCEPT !.title = <<"B", "u", "g">>],
      [NoFields EXCEPT !.description = <<"D", "o", "w", "n">>],
      [NoFields EXCEPT !.category = "network", !.priority = "high"],
      [NoFields EXCEPT !.status = "in_progress"] }

TicketFields == {"title", "description", "category", "priority", "status"}

Init ==
    /\ model_file \in {NoFile, pickled(fit(DataA))}
    /\ triager = TicketTriager_init(model_file)
    /\ tickets = <<>>
    /\ now = 0
    /\ last = NoRequest
    /\ data_file = NoFile
    /\ train = Idle
    /\ call = <<>>
    /\ arg = [title |-> <<>>, description |-> <<>>]
    /\ ret = [op |-> "none"]

\* db.py DatabaseManager.create_ticket: the row the INSERT stores.  A None
\* value is left out of the INSERT, so the column default applies: 'open'
\* for status; created_at and updated_at default to utcnow; the id is the
\* next rowid
db_create_ticket(rows, title, description, category, priority, status, t) ==
    Append(rows,
        [id |-> Len(rows) + 1, title |-> title, description |-> description,
         category |-> category, priority |-> priority,
         status |-> IF status = NULL THEN "open" ELSE status,
         created_at |-> t, updated_at |-> t])

\* the mutant of auto_triaged: the triage result replaces what the caller gave
auto_triaged_overwrites(self, body) ==
    LET triage_result == triage_ticket(self, body.title, body.description) IN
    [raised |-> triage_result.raised, triaged |-> TRUE,
     ticket |-> IF triage_result.raised THEN body
                ELSE [body EXCEPT !.category = triage_result.value.category,
                                  !.priority = triage_result.value.priority]]

\* the mutant of auto_triaged: triage runs only when both fields are omitted
auto_triaged_needs_both(self, body) ==
    IF body.category = NULL /\ body.priority = NULL
    THEN LET triage_result == triage_ticket(self, body.title, body.description) IN
         [raised |-> triage_result.raised, triaged |-> TRUE,
          ticket |-> IF triage_result.raised THEN body
                     ELSE [body EXCEPT !.category = triage_result.value.category,
                                       !.priority = triage_result.value.priority]]
    ELSE [raised |-> FALSE, triaged |-> FALSE, ticket |-> body]

\* api.py create_ticket lines 77-83: the body after auto-triage, and
\* whether the triager was called and raised
auto_triaged(self, body) ==
    IF body.category = NULL \/ body.priority = NULL
    THEN LET triage_result == triage_ticket(self, body.title, body.description) IN
         IF triage_result.raised
         THEN [raised |-> TRUE, triaged |-> TRUE, ticket |-> body]
         ELSE [raised |-> FALSE, triaged |-> TRUE,
               ticket |-> [body EXCEPT
                   !.category = IF @ = NULL THEN triage_result.value.category ELSE @,
                   !.priority = IF @ = NULL THEN triage_result.value.priority ELSE @]]
    ELSE [raised |-> FALSE, triaged |-> FALSE, ticket |-> body]

\* POST /tickets.  An exception out of the handler is answered 500 and
\* nothing is stored.
CreateTicket(body) ==
    LET filled == auto_triaged(triager, body)
        ticket == filled.ticket
    IN
    /\ IF filled.raised
       THEN /\ last' = [op |-> "create", code |-> 500]
            /\ UNCHANGED <<tickets, now>>
       ELSE /\ now < MaxTime
            /\ now' = now + 1
            /\ tickets' = db_create_ticket(tickets, ticket.title, ticket.description,
                              ticket.category, ticket.priority, ticket.status, now')
            /\ last' = [op |-> "create", code |-> 200, id |-> Len(tickets'),
                        given |-> {k \in {"category", "priority"} : body[k] # NULL},
                        triaged |-> filled.triaged]
    /\ UNCHANGED <<model_file, data_file, train, triager, call, arg, ret>>

\* the mutant of TriageEndpoint: the triaged ticket is also stored
TriageEndpointStoring(title, description) ==
    /\ now < MaxTime
    /\ now' = now + 1
    /\ LET result == triage_ticket(triager, title, description).value IN
       /\ tickets' = db_create_ticket(tickets, title, description,
                         result.category, result.priority, NULL, now')
       /\ last' = [op |-> "triage", code |-> 200,
                   predicted_category |-> result.category,
                   predicted_priority |-> result.priority]
    /\ UNCHANGED <<model_file, data_file, train, triager, call, arg, ret>>

\* POST /tickets/triage
TriageEndpoint(title, description) ==
    /\ LET result == triage_ticket(triager, title, description).value IN
       last' = [op |-> "triage", code |-> 200,
                predicted_category |-> result.category,
                predicted_priority |-> result.priority]
    /\ UNCHANGED <<model_file, data_file, train, triager, call, tickets, now, arg, ret>>

\* api.py update_ticket line 170: the fields given with a value
null_of(k) == IF k \in {"title", "description"} THEN NoText ELSE NULL
update_data(body) == {k \in TicketFields : body[k] # null_of(k)}

\* the mutant of db_update_row: the column has no onupdate
db_update_row_no_onupdate(row, body, t) ==
    [k \in DOMAIN row |-> IF k \in update_data(body) THEN body[k] ELSE row[k]]

\* db.py DatabaseManager.update_ticket lines 115-119 on the row found: the
\* setattr of each field, and the UPDATE that commit issues when a value
\* changed, which also sets updated_at (onupdate)
db_update_row(row, body, t) ==
    LET set == [k \in DOMAIN row |->
                   IF k \in update_data(body) THEN body[k] ELSE row[k]]
    IN IF set = row THEN row ELSE [set EXCEPT !.updated_at = t]

\* the mutant of UpdateTicket: the ticket is looked up before the body is
\* examined
UpdateTicketLookupFirst(ticket_id, body) ==
    /\ IF ticket_id \notin 1..Len(tickets)
       THEN /\ last' = [op |-> "update", code |-> 404]
            /\ UNCHANGED <<tickets, now>>
       ELSE IF update_data(body) = {}
       THEN /\ last' = [op |-> "update", code |-> 400]
            /\ UNCHANGED <<tickets, now>>
       ELSE /\ now < MaxTime
            /\ now' = now + 1
            /\ tickets' = [tickets EXCEPT ![ticket_id] = db_update_row(@, body, now')]
            /\ last' = [op |-> "update", code |-> 200, id |-> ticket_id,
                        given |-> update_data(body)]
    /\ UNCHANGED <<model_file, data_file, train, triager, call, arg, ret>>

\* the mutant of UpdateTicket: every field of the body is written, null or not
UpdateTicketWritesNulls(ticket_id, body) ==
    /\ IF update_data(body) = {}
       THEN /\ last' = [op |-> "update", code |-> 400]
            /\ UNCHANGED <<tickets, now>>
       ELSE IF ticket_id \notin 1..Len(tickets)
       THEN /\ last' = [op |-> "update", code |-> 404]
            /\ UNCHANGED <<tickets, now>>
       ELSE /\ now < MaxTime
            /\ now' = now + 1
            /\ tickets' = [tickets EXCEPT ![ticket_id] =
                  [k \in DOMAIN @ |->
                      IF k \in TicketFields THEN body[k]
                      ELSE IF k = "updated_at" THEN now' ELSE @[k]]]
            /\ last' = [op |-> "update", code |-> 200, id |-> ticket_id,
                        given |-> update_data(body)]
    /\ UNCHANGED <<model_file, data_file, train, triager, call, arg, ret>>

\* PUT /tickets/{ticket_id}
UpdateTicket(ticket_id, body) ==
    /\ IF update_data(body) = {}
       THEN /\ last' = [op |-> "update", code |-> 400]
            /\ UNCHANGED <<tickets, now>>
       ELSE IF ticket_id \notin 1..Len(tickets)
       THEN /\ last' = [op |-> "update", code |-> 404]
            /\ UNCHANGED <<tickets, now>>
       ELSE /\ now < MaxTime
            /\ now' = now + 1
            /\ tickets' = [tickets EXCEPT ![ticket_id] = db_update_row(@, body, now')]
            /\ last' = [op |-> "update", code |-> 200, id |-> ticket_id,
                        given |-> update_data(body)]
    /\ UNCHANGED <<model_file, data_file, train, triager, call, arg, ret>>

Next ==
    \/ \E body \in CreateBodies : CreateTicket(body)
    \/ \E ticket_id \in 1..(Len(tickets) + 1), body \in UpdateBodies :
          UpdateTicket(ticket_id, body)
    \/ \E title \in ReqTitles, description \in ReqDescriptions :
          TriageEndpoint(title, description)

Spec == Init /\ [][Next]_vars

(***************************************************************************)
(* The claims about the REST API, checked under Spec.                       *)
(***************************************************************************)
\* C6: triage never blocks ticket creation: with no model loaded, a POST
\* /tickets that omits category or priority is answered 200 and stores
\* exactly one new ticket, the tickets before it untouched, whose omitted
\* category is "uncategorized" and whose omitted priority is the heuristic's
\* result on title, one space, description.
C6_CreateNotBlocked ==
    [][\A body \in CreateBodies :
          (/\ triager.model = None
           /\ body.category = NULL \/ body.priority = NULL
           /\ last'.op = "create"
           /\ CreateTicket(body))
          => /\ last'.code = 200
             /\ Len(tickets') = Len(tickets) + 1
             /\ SubSeq(tickets', 1, Len(tickets)) = tickets
             /\ LET new == tickets'[Len(tickets')] IN
                /\ new.title = body.title /\ new.description = body.description
                /\ body.category = NULL => new.category = "uncategorized"
                /\ body.category # NULL => new.category = body.category
                /\ body.priority = NULL
                     => new.priority
                          = predict_priority(triager, body.title \o <<" ">> \o body.description)
                /\ body.priority # NULL => new.priority = body.priority
      ]_vars

\* a second ticket, created with both fields omitted and no model loaded
C6_Witness ==
    /\ triager.model = None
    /\ last.op = "create" /\ last.code = 200 /\ last.given = {}
    /\ Len(tickets) = 2 /\ last.id = 2
    /\ tickets[2].category = "uncategorized"
    /\ tickets[2].priority = "high"

\* C10: the triage pipeline stores nothing: a step that answers POST
\* /tickets/triage leaves every row of the tickets table, updated_at
\* included, and the number of rows as they were.
C10_TriageStoresNothing ==
    [][last'.op = "triage" => tickets' = tickets]_vars

\* a triage answered over a table that holds a ticket
C10_Witness ==
    /\ last.op = "triage"
    /\ last.predicted_priority = "high"
    /\ Len(tickets) >= 1

(***************************************************************************)
(* The claims about concurrent calls, checked under SpecCalls.              *)
(***************************************************************************)
HasCategory(c) == c.pc \in {"priority", "done"}

\* C8: for the artifact the process loaded, two calls with the same text
\* return the same category and the same priority, whether one follows the
\* other or they interleave with each other, with calls on other texts and
\* with training runs.
C8_SameTextSameResult ==
    \A g, h \in Handlers :
        /\ (HasCategory(call[g]) /\ HasCategory(call[h])
              /\ call[g].ticket_text = call[h].ticket_text)
             => call[g].category = call[h].category
        /\ (call[g].pc = "done" /\ call[h].pc = "done"
              /\ call[g].ticket_text = call[h].ticket_text)
             => call[g].priority = call[h].priority

\* two handlers returned a category of the loaded model for the same text
\* while the file on disk holds another model
C8_Witness ==
    /\ call[1].pc = "done" /\ call[2].pc = "done"
    /\ call[1].ticket_text = call[2].ticket_text
    /\ call[1].category \notin {"uncategorized"}
    /\ model_file.exists /\ model_file.complete
    /\ model_file.data.model # triager.model

\* C9: the artifact is loaded at construction and never again: no step of a
\* call or of a training run changes the constructed triager, and a triager
\* constructed without a model answers "uncategorized" also once a training
\* run has written the file.
C9_LoadedOnce ==
    [][/\ triager.state = "ready" => triager' = triager
       /\ \A h \in Handlers :
            (/\ triager.state = "ready" /\ triager.model = None
             /\ call[h].pc = "category" /\ call'[h].pc # "category")
            => (call'[h].pc = "priority" /\ call'[h].category = "uncategorized")
      ]_vars

\* the triager was constructed without a model, a training run has since
\* written the file, one handler has answered "uncategorized" and another is
\* about to test self.model
C9_Witness ==
    /\ triager.state = "ready" /\ triager.model = None
    /\ model_file.exists /\ model_file.complete
    /\ train.pc = "idle" /\ train.result = "saved"
    /\ \E g, h \in Handlers :
          /\ call[g].pc = "category"
          /\ call[h].pc = "done" /\ call[h].category = "uncategorized"

(***************************************************************************)
(* The claims about direct calls, checked under SpecUnit.                   *)
(***************************************************************************)
\* the keyword lists as the specification gives them
SpecHighKeywords == {
    <<"u", "r", "g", "e", "n", "t">>, <<"c", "r", "i", "t", "i", "c", "a", "l">>,
    <<"e", "m", "e", "r", "g", "e", "n", "c", "y">>, <<"d", "o", "w", "n">>,
    <<"o", "u", "t", "a", "g", "e">>,
    <<"n", "o", "t", " ", "w", "o", "r", "k", "i", "n", "g">>,
    <<"b", "r", "o", "k", "e", "n">>, <<"s", "e", "c", "u", "r", "i", "t", "y">>,
    <<"b", "r", "e", "a", "c", "h">> }

SpecMediumKeywords == {
    <<"i", "s", "s", "u", "e">>, <<"p", "r", "o", "b", "l", "e", "m">>,
    <<"e", "r", "r", "o", "r">>, <<"b", "u", "g">>, <<"s", "l", "o", "w">>,
    <<"p", "e", "r", "f", "o", "r", "m", "a", "n", "c", "e">>,
    <<"h", "e", "l", "p">> }

\* keyword k stands in text at offset i, letter case apart
OccursAt(k, text, i) ==
    /\ i + Len(k) - 1 <= Len(text)
    /\ \A j \in 1..Len(k) : lower_char(text[i + j - 1]) = k[j]

Occurrences(keywords, text) ==
    {<<k, i>> \in keywords \X (1..Len(text)) : OccursAt(k, text, i)}

\* the text the heuristic was given by the call that returned, and the
\* priority that call returned
HeuristicRan == ret.op \in {"predict_priority", "triage_ticket"}
HeuristicText ==
    IF ret.op = "triage_ticket"
    THEN arg.title \o <<" ">> \o arg.description
    ELSE arg.description
ReturnedPriority ==
    IF ret.op = "triage_ticket" THEN ret.value.priority ELSE ret.value

\* C1: a text that holds a high-priority keyword, in any letter case, gets
\* 'high', whatever medium-priority keywords it also holds and wherever and
\* however often the keywords stand.
C1_HighKeywordGivesHigh ==
    (HeuristicRan /\ Occurrences(SpecHighKeywords, HeuristicText) # {})
        => ReturnedPriority = "high"

\* a medium keyword first, then a high keyword with a capital, twice
C1_Witness ==
    /\ ret.op = "predict_priority"
    /\ ret.value = "high"
    /\ arg.description = <<"B", "u", "g", "D", "o", "w", "n", "D", "o", "w", "n">>
    /\ Cardinality(Occurrences(SpecHighKeywords, arg.description)) = 2
    /\ \E m \in Occurrences(SpecMediumKeywords, arg.description) :
          \A h \in Occurrences(SpecHighKeywords, arg.description) : m[2] < h[2]

\* C2: a text without a high-priority keyword gets 'medium' exactly when it
\* holds a medium-priority keyword, and 'low' otherwise; the empty text gets
\* 'low'.
C2_MediumIffMediumKeyword ==
    (HeuristicRan /\ Occurrences(SpecHighKeywords, HeuristicText) = {})
        => /\ ReturnedPriority = "medium"
                <=> Occurrences(SpecMediumKeywords, HeuristicText) # {}
           /\ Occurrences(SpecMediumKeywords, HeuristicText) = {}
                => ReturnedPriority = "low"
           /\ HeuristicText = <<>> => ReturnedPriority = "low"

\* 'Bug' in mixed case next to half of a high keyword
C2_Witness ==
    /\ ret.op = "predict_priority"
    /\ ret.value = "medium"
    /\ arg.description = <<"n", "o", "t", "B", "u", "g">>

\* C3: predict_priority is total: a call is possible on every text and
\* returns, without raising, one of low, medium, high.
C3_PriorityTotal ==
    /\ ENABLED CallPredictPriority
    /\ HeuristicRan => (~ret.raised /\ ReturnedPriority \in Priorities)

\* the empty text
C3_Witness ==
    /\ ret.op = "predict_priority"
    /\ arg.description = <<>>
    /\ ret.value = "low"

\* C4: a triager constructed with the model file absent is constructed (no
\* failure), holds no model, and predict_category returns "uncategorized"
\* on every text without raising.
C4_SentinelWithoutArtifact ==
    ~model_file.exists
        => /\ triager.state = "ready"
           /\ triager.model = None /\ triager.vectorizer = None
           /\ ret.op = "predict_category"
                => (~ret.raised /\ ret.value = "uncategorized")
           /\ ret.op = "triage_ticket"
                => (~ret.raised /\ ret.value.category = "uncategorized")

C4_Witness ==
    /\ ~model_file.exists
    /\ ret.op = "predict_category"
    /\ ret.value = "uncategorized"
    /\ arg.description = <<"D", "o", "w", "n", " ", "B", "u", "g">>

\* C5: triage_ticket(title, description) returns the category and the
\* priority that predict_category and predict_priority give on title, one
\* space, description.
C5_TriageComposes ==
    ret.op = "triage_ticket"
        => LET text == arg.title \o <<" ">> \o arg.description IN
           /\ ret.value.category = predict_category(triager, text).value
           /\ ret.value.priority = predict_priority(triager, text)
           /\ ret.raised = predict_category(triager, text).raised

\* the joining space completes 'not working'; the model gives a category
C5_Witness ==
    /\ ret.op = "triage_ticket"
    /\ arg.title = <<"n", "o", "t">>
    /\ arg.description = <<"w", "o", "r", "k", "i", "n", "g">>
    /\ ret.value.priority = "high"
    /\ ret.value.category = "hardware"

\* C7: the priority does not depend on the artifact: what predict_priority
\* and triage_ticket returned as priority is what a triager constructed over
\* any other model file, absent or present, returns on the same arguments.
C7_PriorityIgnoresArtifact ==
    \A f \in ModelFiles :
        LET other == TicketTriager_init(f) IN
        /\ ret.op = "predict_priority"
             => ret.value = predict_priority(other, arg.description)
        /\ ret.op = "triage_ticket"
             => ret.value.priority
                  = triage_ticket(other, arg.title, arg.description).value.priority

\* a triager without a model returns a priority other than the default
C7_Witness ==
    /\ triager.model = None
    /\ ret.op = "triage_ticket"
    /\ ret.value.priority = "high"
    /\ ret.value.category = "uncategorized"

(***************************************************************************)
(* Further claims about the tickets table, checked under Spec.              *)
(***************************************************************************)
StatusValues == {"open", "in_progress", "resolved"}

\* C11: every stored ticket's status is one of open, in_progress, resolved.
\* The code stores whatever string the request gives (api.py TicketCreate
\* and TicketUpdate declare status Optional[str], db.py a String column).
C11_StatusValid ==
    \A i \in 1..Len(tickets) : tickets[i].status \in StatusValues

\* C12: created_at is set at creation and no update changes it; a step that
\* changes a stored ticket sets its updated_at to the time of that step, and
\* a step that leaves a ticket as it was leaves its updated_at too; so
\* updated_at is never earlier than created_at and is the time of the
\* ticket's latest change.  (A PUT that gives the values already stored
\* changes nothing and is no mutation.)
C12_Timestamps ==
    [][/\ \A i \in 1..Len(tickets') :
             tickets'[i].updated_at >= tickets'[i].created_at
       /\ \A i \in 1..Len(tickets) :
             /\ i <= Len(tickets')
             /\ tickets'[i].created_at = tickets[i].created_at
             /\ tickets'[i] # tickets[i] => tickets'[i].updated_at = now'
       /\ \A i \in (Len(tickets) + 1)..Len(tickets') :
             /\ tickets'[i].created_at = now'
             /\ tickets'[i].updated_at = now'
      ]_vars

\* a ticket changed by an update after the request that created it
C12_Witness ==
    /\ last.op = "update" /\ last.code = 200
    /\ tickets[last.id].updated_at = now
    /\ tickets[last.id].created_at < now

StoredIds == {tickets[i].id : i \in 1..Len(tickets)}

\* C15: a rejected update stores nothing: a PUT whose body has no non-null
\* field is answered 400, whether or not the id is stored, and a PUT with a
\* field for an id that is not stored is answered 404; either way the
\* tickets table is as it was.
C15_RejectedUpdate ==
    [][\A ticket_id \in 1..(Len(tickets) + 1), body \in UpdateBodies :
          (last'.op = "update" /\ UpdateTicket(ticket_id, body))
          => /\ (\A k \in TicketFields : body[k] = null_of(k))
                  => (last'.code = 400 /\ tickets' = tickets)
             /\ ((\E k \in TicketFields : body[k] # null_of(k))
                    /\ ticket_id \notin StoredIds)
                  => (last'.code = 404 /\ tickets' = tickets)
             /\ last'.code \in {400, 404} => tickets' = tickets
      ]_vars

\* an update rejected over a table that holds tickets
C15_Witness ==
    /\ last.op = "update" /\ last.code \in {400, 404}
    /\ Len(tickets) = 2

\* C16: a PUT answered 200 gives the ticket of that id the values of the
\* fields the body supplies and leaves its other fields, its id and its
\* created_at as they were; only updated_at may change besides, to the time
\* of the request; every other ticket and the number of tickets are
\* unchanged.
C16_UpdateFrame ==
    [][\A ticket_id \in 1..(Len(tickets) + 1), body \in UpdateBodies :
          (last'.op = "update" /\ last'.code = 200 /\ UpdateTicket(ticket_id, body))
          => /\ Len(tickets') = Len(tickets)
             /\ ticket_id \in 1..Len(tickets)
             /\ \A j \in 1..Len(tickets) : j # ticket_id => tickets'[j] = tickets[j]
             /\ LET old == tickets[ticket_id]
                    new == tickets'[ticket_id]
                IN /\ old.id = ticket_id /\ new.id = ticket_id
                   /\ new.created_at = old.created_at
                   /\ new.updated_at \in {old.updated_at, now'}
                   /\ \A k \in TicketFields :
                         new[k] = IF body[k] # null_of(k) THEN body[k] ELSE old[k]
      ]_vars

\* the first of two tickets was given a new title, the rest of it kept
C16_Witness ==
    /\ last.op = "update" /\ last.code = 200 /\ last.id = 1
    /\ last.given = {"title"}
    /\ Len(tickets) = 2
    /\ tickets[1].title = <<"B", "u", "g">>
    /\ tickets[1].description # <<"D", "o", "w", "n">>
    /\ tickets[1].updated_at > tickets[1].created_at

\* C17: POST /tickets triages only what is missing: a category or priority
\* the caller gives is stored as given, one that is omitted is stored as
\* that field of triage_ticket(title, description), and the triager is
\* called exactly when one of the two is omitted.
C17_TriageOnlyMissing ==
    [][\A body \in CreateBodies :
          (last'.op = "create" /\ last'.code = 200 /\ CreateTicket(body))
          => /\ Len(tickets') = Len(tickets) + 1
             /\ LET new == tickets'[Len(tickets')]
                    result == triage_ticket(triager, body.title, body.description).value
                IN /\ new.category = IF body.category # NULL THEN body.category
                                     ELSE result.category
                   /\ new.priority = IF body.priority # NULL THEN body.priority
                                     ELSE result.priority
             /\ last'.triaged = (body.category = NULL \/ body.priority = NULL)
      ]_vars

\* with a model loaded, a ticket created with its category given and its
\* priority omitted: the category is the caller's, the priority the heuristic's
C17_Witness ==
    /\ triager.model # None
    /\ last.op = "create" /\ last.code = 200 /\ last.given = {"category"}
    /\ last.triaged
    /\ tickets[last.id].category = "billing"
    /\ tickets[last.id].priority = "high"

\* C18: every stored ticket has a category and a priority: creation fills
\* the ones omitted by triage, and an update cannot set a field to null.
C18_TriagedNeverNull ==
    \A i \in 1..Len(tickets) :
        tickets[i].category # NULL /\ tickets[i].priority # NULL

\* a ticket created with only its priority given, then updated
C18_Witness ==
    /\ Len(tickets) >= 1
    /\ last.op = "update" /\ last.code = 200
    /\ tickets[last.id].priority = "low"
    /\ tickets[last.id].category \notin {NULL, "billing", "network"}

(***************************************************************************)
(* The claim about a training run without input, checked under SpecCalls.   *)
(***************************************************************************)
\* C13: a training run that finds no input file ends at once, reporting the
\* error: it does not go on to split, fit, evaluate or save, and the model
\* file, absent or saved by an earlier run, stays as it was.
C13_NoInputNoTraining ==
    [][(train.pc = "idle" /\ ~data_file.exists /\ train' # train)
          => /\ train'.pc = "idle"
             /\ train'.result = "no_data"
             /\ model_file' = model_file
      ]_vars

\* a run that found no input, after an earlier run saved a model
C13_Witness ==
    /\ train.pc = "idle" /\ train.result = "no_data"
    /\ ~data_file.exists
    /\ model_file \in {pickled(fit(d)) : d \in Datasets}

(***************************************************************************)
(* The claim about the dashboard's examples, checked under SpecUnit.        *)
(***************************************************************************)
\* C14: for each example of the Triage Demo page, triage_ticket on its title
\* and description returns the priority the page shows as expected.
C14_ExamplesAsExpected ==
    \A i \in DOMAIN examples :
        (/\ ret.op = "triage_ticket"
         /\ arg.title = examples[i].title
         /\ arg.description = examples[i].description)
        => ret.value.priority = examples[i].priority

(***************************************************************************)
(* The claim about concatenation, checked under SpecUnit.                   *)
(***************************************************************************)
\* the order low < medium < high
PriorityRank(p) == CASE p = "low" -> 0 [] p = "medium" -> 1 [] p = "high" -> 2

\* C19: the heuristic is monotone under concatenation: the priority returned
\* for a text is at least the priority of each of the two parts of every
\* split of it, and the priority triage_ticket returns is at least the
\* priority of the title and of the description taken alone.
C19_MonotoneUnderConcat ==
    /\ ret.op = "predict_priority"
         => \A k \in 0..Len(arg.description) :
               LET s == SubSeq(arg.description, 1, k)
                   t == SubSeq(arg.description, k + 1, Len(arg.description))
               IN /\ PriorityRank(ret.value) >= PriorityRank(predict_priority(triager, s))
                  /\ PriorityRank(ret.value) >= PriorityRank(predict_priority(triager, t))
    /\ ret.op = "triage_ticket"
         => /\ PriorityRank(ret.value.priority)
                 >= PriorityRank(predict_priority(triager, arg.title))
            /\ PriorityRank(ret.value.priority)
                 >= PriorityRank(predict_priority(triager, arg.description))

\* strictly higher: 'not working' spans the joining space
C19_Witness ==
    /\ ret.op = "triage_ticket"
    /\ arg.title = <<"n", "o", "t">>
    /\ arg.description = <<"w", "o", "r", "k", "i", "n", "g">>
    /\ ret.value.priority = "high"
    /\ predict_priority(triager, arg.title) = "low"
    /\ predict_priority(triager, arg.description) = "low"

====
